---------------------------- MODULE Spec2Model ----------------------------
(***************************************************************************)
(* Transition oracle for UCCA passages (parser/oracle.py).                 *)
(*                                                                         *)
(* A behaviour is one oracle-driven parse of one gold passage: the driver  *)
(* alternates Oracle.get_action (pc = "oracle") with the application of    *)
(* the returned action to the parser state (pc = "apply").  The gold       *)
(* passage, the compound-swap configuration and the placement of a newly   *)
(* created parent are chosen in Init and never change.  A second           *)
(* specification, SpecPair, interleaves two such parses of different       *)
(* passages: one is running, the other is suspended in the variable        *)
(* other, and Switch exchanges them at any point.  A third one, SpecSort,  *)
(* runs topological_sort and create_nodes of ucca/convert.py (from_conll)  *)
(* on the dependency trees of one paragraph.                               *)
(*                                                                         *)
(* Oracle.__init__ and Oracle.get_action are translated from               *)
(* parser/oracle.py.  The parser state and the effect of each action on    *)
(* it follow the action table of the specification (section 4.1); the      *)
(* root is on the stack of a fresh state, since the oracle never creates   *)
(* it (it is taken out of nodes_remaining at construction).                *)
(***************************************************************************)
EXTENDS Integers, Sequences, FiniteSets

VARIABLES
    gold,             \* the passage's edges: {edge for node in passage.nodes.values() for edge in node}
    implicit,         \* IDs of the gold nodes whose attrib has "implicit"
    layer1,           \* IDs of passage.layer(layer1.LAYER_ID).all
    compound_swap,    \* Config().compound_swap
    node_above,       \* NODE pushes the parent above the top (TRUE) or in its place (FALSE)
    edges_remaining,  \* Oracle.edges_remaining
    nodes_remaining,  \* Oracle.nodes_remaining
    stack,            \* state.stack: node IDs, top last
    buffer,           \* state.buffer: node IDs, front first
    edges,            \* the edges of the graph under construction, in creation order
    action,           \* what the last get_action call returned or raised
    swap_distance,    \* the local swap_distance of the last get_action call
    er_before,        \* edges_remaining when the last get_action call began
    nr_before,        \* nodes_remaining when the last get_action call began
    shifted,          \* terminals that have been shifted at least once
    pc,               \* "oracle", "apply", "finished" or "failed"
    calls,            \* the number of get_action calls the driver has made
    other,            \* the suspended Oracle/State pair of a second parse, if any
    sort              \* from_conll: the dependency nodes and the locals of topological_sort and create_nodes

vars == <<gold, implicit, layer1, compound_swap, node_above, edges_remaining,
          nodes_remaining, stack, buffer, edges, action, swap_distance,
          er_before, nr_before, shifted, pc, calls, other, sort>>

-----------------------------------------------------------------------------
(* Bounds of the gold passages that are explored *)

MaxEdges == 3

\* the largest number of tokens of a CoNLL paragraph
MaxTokens == 3

-----------------------------------------------------------------------------
(* The gold passage *)

ROOT_ID == "1.1"

\* the terminals (layer 0) in text order, and the units (layer 1) besides the
\* root in a topological order of the gold DAG
TerminalIDs == <<"0.1", "0.2", "0.3">>
UnitIDs == <<"1.2", "1.3">>

Terminals == {TerminalIDs[i] : i \in 1..Len(TerminalIDs)}
Units == {UnitIDs[i] : i \in 1..Len(UnitIDs)}
Layer1 == {ROOT_ID} \cup Units

\* the tag and the remote attribute an edge may carry
EdgeKinds == {<<"A", FALSE>>, <<"D", FALSE>>, <<"D", TRUE>>}

Rank(n) == IF n = ROOT_ID THEN 0 ELSE CHOOSE i \in 1..Len(UnitIDs) : UnitIDs[i] = n

\* every edge a gold passage may hold: the parent is a layer-1 node, the
\* child a terminal or a later layer-1 node
CandidateEdges ==
    {[parent |-> p, child |-> c, tag |-> k[1], remote |-> k[2]] :
        p \in Layer1, c \in Terminals \cup Units, k \in EdgeKinds}
    \ {e \in [parent : Layer1, child : Units, tag : {"A", "D"}, remote : BOOLEAN] :
        Rank(e.parent) >= Rank(e.child)}

RECURSIVE EdgeSets(_)
EdgeSets(k) ==
    IF k = 0 THEN {{}}
    ELSE LET smaller == EdgeSets(k - 1)
         IN  smaller \cup {g \cup {e} : g \in smaller, e \in CandidateEdges}

Incoming(g, n) == {e \in g : e.child = n}
Outgoing(g, n) == {e \in g : e.parent = n}

\* units that may carry the implicit attribute: attached, and without children
ImplicitCandidates(g) ==
    {u \in Units : Outgoing(g, u) = {} /\ Incoming(g, u) # {}}

\* the layer-1 nodes a passage with the edges g must hold: the root and every
\* unit with an edge
Layer1All(g) ==
    {ROOT_ID} \cup {u \in Units : Incoming(g, u) \cup Outgoing(g, u) # {}}

\* the layer-1 node sets a passage with the edges g may have: it may also
\* hold units without any edge
Layer1Sets(g) ==
    {Layer1All(g) \cup isolated : isolated \in SUBSET (Units \ Layer1All(g))}

-----------------------------------------------------------------------------
(* Python helpers *)

\* seq[:-k] for k >= 1
DropLast(seq, k) ==
    IF Len(seq) <= k THEN <<>> ELSE SubSeq(seq, 1, Len(seq) - k)

Range(seq) == {seq[i] : i \in 1..Len(seq)}

None == "None"

\* no paragraph is being converted
NoSort == [spc |-> "idle"]

-----------------------------------------------------------------------------
(* Oracle.get_action *)

s0 == stack[Len(stack)]
s1 == stack[Len(stack) - 1]

\* incoming as it would be if remote edges were left out of it
incoming_primary_only ==
    {e \in edges_remaining \cap Incoming(gold, s0) : ~e.remote}

incoming == edges_remaining \cap Incoming(gold, s0)
\* outgoing as it would be without the intersection with edges_remaining
outgoing_all == Outgoing(gold, s0)

outgoing == edges_remaining \cap Outgoing(gold, s0)

\* related as it would be if only the parents of incoming edges were taken
related_parents_only == {e.parent : e \in incoming}

related == {e.child : e \in outgoing} \cup {e.parent : e \in incoming}

RightEdges == {e \in incoming : e.parent = s1}
LeftEdges == {e \in outgoing : e.child = s1}

\* the action name as it would be without the test of the remote attribute
BinaryName_never_remote(prefix, edge) ==
    IF prefix = "RIGHT" THEN "RIGHT-EDGE" ELSE "LEFT-EDGE"

BinaryName(prefix, edge) ==
    IF edge.remote
    THEN (IF prefix = "RIGHT" THEN "RIGHT-REMOTE" ELSE "LEFT-REMOTE")
    ELSE (IF prefix = "RIGHT" THEN "RIGHT-EDGE" ELSE "LEFT-EDGE")

\* the loop condition without the bound that holds when compound swap is off
SwapGuard_unbounded(d) ==
    /\ Len(stack) > d + 1
    /\ related \subseteq Range(DropLast(stack, d + 2))

\* the loop condition with the slice taken one element too shallow
SwapGuard_shallow_slice(d) ==
    /\ Len(stack) > d + 1
    /\ (compound_swap \/ d < 1)
    /\ related \subseteq Range(DropLast(stack, d + 1))

\* the loop condition as it would be if one related node in the slice sufficed
SwapGuard_any_related(d) ==
    /\ Len(stack) > d + 1
    /\ (compound_swap \/ d < 1)
    /\ related \cap Range(DropLast(stack, d + 2)) # {}

\* the loop condition as it would be if the slice ended one element deeper
SwapGuard_one_deeper(d) ==
    /\ Len(stack) > d + 1
    /\ (compound_swap \/ d < 1)
    /\ related \subseteq Range(DropLast(stack, d + 3))

\* the loop condition as it would be if the slice dropped one element less
SwapGuard_slice_from_s1(d) ==
    /\ Len(stack) > d + 1
    /\ (compound_swap \/ d < 1)
    /\ related \subseteq Range(DropLast(stack, d + 1))

SwapGuard(d) ==
    /\ Len(stack) > d + 1
    /\ (compound_swap \/ d < 1)
    /\ related \subseteq Range(DropLast(stack, d + 2))

RECURSIVE SwapLoop(_)
SwapLoop(d) == IF SwapGuard(d) THEN SwapLoop(d + 1) ELSE d

\* the NODE candidates as they would be without the test of the remote attribute
NodeEdges_with_remote == {e \in incoming : e.parent \in nodes_remaining}

NodeEdges == {e \in incoming : e.parent \in nodes_remaining /\ ~e.remote}
ImplicitEdges == {e \in outgoing : e.child \in implicit}

Act(type, tag, distance, node) ==
    [type |-> type, tag |-> tag, distance |-> distance, node |-> node]

\* one way a call can end: the action returned (or the exception raised), the
\* two remaining sets afterwards and the final value of swap_distance
Outcome(act, er, nr, d) == [action |-> act, er |-> er, nr |-> nr, d |-> d]

\* the FINISH test as it would be if it also waited for the buffer to empty
NoEdgesRemaining_and_buffer_empty == edges_remaining = {} /\ buffer = <<>>

NoEdgesRemaining == edges_remaining = {}

\* the last step as it would be without the test of the buffer
Fallthrough_always_shift ==
    {Outcome(Act("SHIFT", None, 0, None), edges_remaining, nodes_remaining, 0)}

\* the sequences that hold every element of the set s once: the orders in
\* which " ".join may meet the elements of a set
Orderings(s) ==
    {f \in [1..Cardinality(s) -> s] : \A x \in s : \E i \in DOMAIN f : f[i] = x}

\* Oracle.str as it would be if it listed the edges of the passage
str_passage_edges ==
    {[nodes_left |-> n, edges_left |-> e] :
        n \in Orderings(nodes_remaining), e \in Orderings(gold)}

\* Oracle.str: the IDs in nodes_remaining and the edges in edges_remaining,
\* each in the iteration order of its set
str ==
    {[nodes_left |-> n, edges_left |-> e] :
        n \in Orderings(nodes_remaining), e \in Orderings(edges_remaining)}

\* the exception of get_action: its message holds the rendering of the
\* state (stack and buffer) and Oracle.str
Raise ==
    {Outcome([type |-> "NoActionPossible", tag |-> None, distance |-> 0,
              node |-> None, stack |-> stack, buffer |-> buffer,
              nodes_left |-> m.nodes_left, edges_left |-> m.edges_left],
             edges_remaining, nodes_remaining, 0) : m \in str}

\* the last step as it would be if it raised whatever the buffer holds
Fallthrough_never_shift ==
    Raise

\* the last step as it would be if an empty stack were answered by REDUCE
Fallthrough_reduce_empty_stack ==
    IF buffer = <<>>
    THEN Raise
    ELSE IF stack = <<>>
    THEN {Outcome(Act("REDUCE", None, 0, None),
                  edges_remaining, nodes_remaining, 0)}
    ELSE {Outcome(Act("SHIFT", None, 0, None),
                  edges_remaining, nodes_remaining, 0)}

Fallthrough ==
    IF buffer = <<>>
    THEN Raise
    ELSE {Outcome(Act("SHIFT", None, 0, None),
                  edges_remaining, nodes_remaining, 0)}

\* the binary-edge rule as it would be if it discharged every qualifying edge
Binary_discharge_all(prefix, es) ==
    {Outcome(Act(BinaryName(prefix, e), e.tag, 0, None),
             edges_remaining \ es, nodes_remaining, 0) : e \in es}

Binary(prefix, es) ==
    {Outcome(Act(BinaryName(prefix, e), e.tag, 0, None),
             edges_remaining \ {e}, nodes_remaining, 0) : e \in es}

Swap(d) ==
    {Outcome(Act("SWAP", None, IF compound_swap THEN d ELSE 0, None),
             edges_remaining, nodes_remaining, d)}

\* the unary rule as it would be if the created node stayed in nodes_remaining
Unary_keep_node(type, es, d) ==
    {Outcome(Act(type, e.tag, 0, IF type = "NODE" THEN e.parent ELSE e.child),
             edges_remaining \ {e}, nodes_remaining, d) : e \in es}

\* nodes_remaining.remove raises KeyError for an ID that is not in the set,
\* after the edge has been removed
Unary(type, es, d) ==
    {LET node == IF type = "NODE" THEN e.parent ELSE e.child
     IN  IF node \in nodes_remaining
         THEN Outcome(Act(type, e.tag, 0, node),
                      edges_remaining \ {e}, nodes_remaining \ {node}, d)
         ELSE Outcome(Act("KeyError", None, 0, None),
                      edges_remaining \ {e}, nodes_remaining, d) : e \in es}

\* the unary check as it would be if shifting were preferred while the buffer
\* is not empty
UnaryOrFallthrough_shift_first(d) ==
    IF buffer # <<>> THEN Fallthrough
    ELSE IF NodeEdges # {} THEN Unary("NODE", NodeEdges, d)
    ELSE IF ImplicitEdges # {} THEN Unary("IMPLICIT", ImplicitEdges, d)
    ELSE Fallthrough

UnaryOrFallthrough(d) ==
    IF NodeEdges # {} THEN Unary("NODE", NodeEdges, d)
    ELSE IF ImplicitEdges # {} THEN Unary("IMPLICIT", ImplicitEdges, d)
    ELSE Fallthrough

\* get_action as it would be with the unary check placed before the binary
\* and swap checks
GetActionOutcomes_unary_first ==
    IF NoEdgesRemaining
    THEN {Outcome(Act("FINISH", None, 0, None),
                  edges_remaining, nodes_remaining, 0)}
    ELSE IF stack # <<>>
    THEN IF incoming \cup outgoing = {}
         THEN {Outcome(Act("REDUCE", None, 0, None),
                       edges_remaining, nodes_remaining, 0)}
         ELSE IF buffer # <<>> /\ buffer[1] \in related
         THEN {Outcome(Act("SHIFT", None, 0, None),
                       edges_remaining, nodes_remaining, 0)}
         ELSE IF NodeEdges # {} THEN Unary("NODE", NodeEdges, 0)
         ELSE IF ImplicitEdges # {} THEN Unary("IMPLICIT", ImplicitEdges, 0)
         ELSE IF Len(stack) > 1 /\ RightEdges # {} THEN Binary("RIGHT", RightEdges)
         ELSE IF Len(stack) > 1 /\ LeftEdges # {} THEN Binary("LEFT", LeftEdges)
         ELSE IF Len(stack) > 1 /\ SwapLoop(0) # 0 THEN Swap(SwapLoop(0))
         ELSE Fallthrough
    ELSE Fallthrough

\* the set of ways get_action can end in the current state; iterating a set
\* of edges takes them in an order the program does not fix, so each
\* qualifying edge may be the first
GetActionOutcomes ==
    IF NoEdgesRemaining
    THEN {Outcome(Act("FINISH", None, 0, None),
                  edges_remaining, nodes_remaining, 0)}
    ELSE IF stack # <<>>
    THEN IF incoming \cup outgoing = {}
         THEN {Outcome(Act("REDUCE", None, 0, None),
                       edges_remaining, nodes_remaining, 0)}
         ELSE IF buffer # <<>> /\ buffer[1] \in related
         THEN {Outcome(Act("SHIFT", None, 0, None),
                       edges_remaining, nodes_remaining, 0)}
         ELSE IF Len(stack) > 1
         THEN IF RightEdges # {} THEN Binary("RIGHT", RightEdges)
              ELSE IF LeftEdges # {} THEN Binary("LEFT", LeftEdges)
              ELSE IF SwapLoop(0) # 0 THEN Swap(SwapLoop(0))
              ELSE UnaryOrFallthrough(SwapLoop(0))
         ELSE UnaryOrFallthrough(0)
    ELSE Fallthrough

\* get_action as it would be if it popped the stack itself when it returns
\* REDUCE
GetAction_pops_on_reduce ==
    /\ pc = "oracle"
    /\ \E o \in GetActionOutcomes :
        /\ action' = o.action
        /\ edges_remaining' = o.er
        /\ nodes_remaining' = o.nr
        /\ swap_distance' = o.d
        /\ pc' = IF o.action.type \in {"NoActionPossible", "KeyError"}
                 THEN "failed" ELSE "apply"
        /\ stack' = IF o.action.type = "REDUCE" /\ Len(stack) > 1
                    THEN DropLast(stack, 1) ELSE stack
    /\ er_before' = edges_remaining
    /\ nr_before' = nodes_remaining
    /\ calls' = calls + 1
    /\ UNCHANGED <<gold, implicit, layer1, compound_swap, node_above, buffer,
                   edges, shifted, other, sort>>

\* get_action as it would be if nodes_remaining were one set shared by all
\* Oracle objects: a node taken out by one oracle is gone for the other
GetAction_shared_nodes ==
    /\ pc = "oracle"
    /\ \E o \in GetActionOutcomes :
        /\ action' = o.action
        /\ edges_remaining' = o.er
        /\ nodes_remaining' = o.nr
        /\ swap_distance' = o.d
        /\ pc' = IF o.action.type \in {"NoActionPossible", "KeyError"}
                 THEN "failed" ELSE "apply"
        /\ other' = {[p EXCEPT !.nodes_remaining = @ \ (nodes_remaining \ o.nr)]
                        : p \in other}
    /\ er_before' = edges_remaining
    /\ nr_before' = nodes_remaining
    /\ calls' = calls + 1
    /\ UNCHANGED <<gold, implicit, layer1, compound_swap, node_above, stack, buffer,
                   edges, shifted, sort>>

GetAction ==
    /\ pc = "oracle"
    /\ \E o \in GetActionOutcomes :
        /\ action' = o.action
        /\ edges_remaining' = o.er
        /\ nodes_remaining' = o.nr
        /\ swap_distance' = o.d
        /\ pc' = IF o.action.type \in {"NoActionPossible", "KeyError"}
                 THEN "failed" ELSE "apply"
    /\ er_before' = edges_remaining
    /\ nr_before' = nodes_remaining
    /\ calls' = calls + 1
    /\ UNCHANGED <<gold, implicit, layer1, compound_swap, node_above, stack, buffer,
                   edges, shifted, other, sort>>

-----------------------------------------------------------------------------
(* The parser state and the effect of the actions on it *)

Edge(parent, child, tag, remote) ==
    [parent |-> parent, child |-> child, tag |-> tag, remote |-> remote]

Applying(types) == pc = "apply" /\ action.type \in types

Done == pc' = "oracle" /\ UNCHANGED <<gold, implicit, layer1, compound_swap,
            node_above, edges_remaining, nodes_remaining, action,
            swap_distance, er_before, nr_before, calls, other, sort>>

Shift ==
    /\ Applying({"SHIFT"})
    /\ buffer # <<>>
    /\ stack' = Append(stack, Head(buffer))
    /\ buffer' = Tail(buffer)
    /\ shifted' = shifted \cup ({Head(buffer)} \cap Terminals)
    /\ UNCHANGED edges
    /\ Done

Node ==
    /\ Applying({"NODE"})
    /\ stack # <<>>
    /\ edges' = Append(edges, Edge(action.node, s0, action.tag, FALSE))
    /\ stack' = IF node_above
                THEN Append(stack, action.node)
                ELSE [stack EXCEPT ![Len(stack)] = action.node]
    /\ UNCHANGED <<buffer, shifted>>
    /\ Done

Implicit ==
    /\ Applying({"IMPLICIT"})
    /\ stack # <<>>
    /\ edges' = Append(edges, Edge(s0, action.node, action.tag, FALSE))
    /\ UNCHANGED <<stack, buffer, shifted>>
    /\ Done

LeftEdge ==
    /\ Applying({"LEFT-EDGE", "LEFT-REMOTE"})
    /\ Len(stack) > 1
    /\ edges' = Append(edges, Edge(s0, s1, action.tag,
                                   action.type = "LEFT-REMOTE"))
    /\ UNCHANGED <<stack, buffer, shifted>>
    /\ Done

RightEdge ==
    /\ Applying({"RIGHT-EDGE", "RIGHT-REMOTE"})
    /\ Len(stack) > 1
    /\ edges' = Append(edges, Edge(s1, s0, action.tag,
                                   action.type = "RIGHT-REMOTE"))
    /\ UNCHANGED <<stack, buffer, shifted>>
    /\ Done

\* REDUCE as it would be if the popped node went back to the buffer
Reduce_to_buffer ==
    /\ Applying({"REDUCE"})
    /\ stack # <<>>
    /\ stack' = DropLast(stack, 1)
    /\ buffer' = <<s0>> \o buffer
    /\ UNCHANGED <<edges, shifted>>
    /\ Done

\* REDUCE as it would be if it left the stack as it is
Reduce_keeps_top ==
    /\ Applying({"REDUCE"})
    /\ stack # <<>>
    /\ UNCHANGED <<stack, buffer, edges, shifted>>
    /\ Done

Reduce ==
    /\ Applying({"REDUCE"})
    /\ stack # <<>>
    /\ stack' = DropLast(stack, 1)
    /\ UNCHANGED <<buffer, edges, shifted>>
    /\ Done

\* SWAP(None) moves one element, SWAP(distance) the distance elements below
\* the top, back to the front of the buffer in their stack order
SwapCount == IF action.distance = 0 THEN 1 ELSE action.distance

SwapStack ==
    /\ Applying({"SWAP"})
    /\ Len(stack) > SwapCount
    /\ stack' = Append(DropLast(stack, SwapCount + 1), s0)
    /\ buffer' = SubSeq(stack, Len(stack) - SwapCount, Len(stack) - 1) \o buffer
    /\ UNCHANGED <<edges, shifted>>
    /\ Done

Finish ==
    /\ Applying({"FINISH"})
    /\ pc' = "finished"
    /\ UNCHANGED <<gold, implicit, layer1, compound_swap, node_above, edges_remaining,
                   nodes_remaining, stack, buffer, edges, action,
                   swap_distance, er_before, nr_before, shifted, calls, other,
                   sort>>

-----------------------------------------------------------------------------
(* Oracle.__init__ and the fresh parser state *)

\* Oracle.__init__ as it would be without the subtraction of {ROOT_ID}
Init_root_remaining ==
    /\ gold \in EdgeSets(MaxEdges)
    /\ implicit \in SUBSET ImplicitCandidates(gold)
    /\ compound_swap \in BOOLEAN
    /\ node_above \in BOOLEAN
    /\ layer1 \in Layer1Sets(gold)
    /\ nodes_remaining = layer1
    /\ edges_remaining = gold
    /\ stack = <<ROOT_ID>>
    /\ buffer = TerminalIDs
    /\ edges = <<>>
    /\ action = Act(None, None, 0, None)
    /\ swap_distance = 0
    /\ er_before = gold
    /\ nr_before = nodes_remaining
    /\ shifted = {}
    /\ pc = "oracle"
    /\ calls = 0
    /\ other = {}
    /\ sort = NoSort

\* Oracle.__init__ as it would be if it collected the primary edges only
Init_primary_edges_only ==
    /\ gold \in EdgeSets(MaxEdges)
    /\ implicit \in SUBSET ImplicitCandidates(gold)
    /\ compound_swap \in BOOLEAN
    /\ node_above \in BOOLEAN
    /\ layer1 \in Layer1Sets(gold)
    /\ nodes_remaining = layer1 \ {ROOT_ID}
    /\ edges_remaining = {e \in gold : ~e.remote}
    /\ stack = <<ROOT_ID>>
    /\ buffer = TerminalIDs
    /\ edges = <<>>
    /\ action = Act(None, None, 0, None)
    /\ swap_distance = 0
    /\ er_before = edges_remaining
    /\ nr_before = nodes_remaining
    /\ shifted = {}
    /\ pc = "oracle"
    /\ calls = 0
    /\ other = {}
    /\ sort = NoSort

Init ==
    /\ gold \in EdgeSets(MaxEdges)
    /\ implicit \in SUBSET ImplicitCandidates(gold)
    /\ compound_swap \in BOOLEAN
    /\ node_above \in BOOLEAN
    /\ layer1 \in Layer1Sets(gold)
    /\ nodes_remaining = layer1 \ {ROOT_ID}
    /\ edges_remaining = gold
    /\ stack = <<ROOT_ID>>
    /\ buffer = TerminalIDs
    /\ edges = <<>>
    /\ action = Act(None, None, 0, None)
    /\ swap_distance = 0
    /\ er_before = gold
    /\ nr_before = nodes_remaining
    /\ shifted = {}
    /\ pc = "oracle"
    /\ calls = 0
    /\ other = {}
    /\ sort = NoSort

Next ==
    \/ GetAction
    \/ Shift
    \/ Node
    \/ Implicit
    \/ LeftEdge
    \/ RightEdge
    \/ Reduce
    \/ SwapStack
    \/ Finish

Spec == Init /\ [][Next]_vars

-----------------------------------------------------------------------------
(* Two parses of different passages, interleaved *)

\* what one Oracle/State pair owns: the passage, the oracle's two sets, the
\* parser state and the position of its driver
Private ==
    [gold |-> gold, implicit |-> implicit, layer1 |-> layer1,
     edges_remaining |-> edges_remaining, nodes_remaining |-> nodes_remaining,
     stack |-> stack, buffer |-> buffer, edges |-> edges, action |-> action,
     swap_distance |-> swap_distance, er_before |-> er_before,
     nr_before |-> nr_before, shifted |-> shifted, pc |-> pc,
     calls |-> calls]

\* the pair of Oracle(passage) and a fresh state
Fresh(passage) ==
    [gold |-> passage.gold, implicit |-> passage.implicit,
     layer1 |-> passage.layer1,
     edges_remaining |-> passage.gold,
     nodes_remaining |-> passage.layer1 \ {ROOT_ID},
     stack |-> <<ROOT_ID>>, buffer |-> TerminalIDs, edges |-> <<>>,
     action |-> Act(None, None, 0, None), swap_distance |-> 0,
     er_before |-> passage.gold, nr_before |-> passage.layer1 \ {ROOT_ID},
     shifted |-> {}, pc |-> "oracle", calls |-> 0]

\* the passages that are parsed in pairs: a unit with a remote and a primary
\* child under the root; an implicit unit and a terminal under the root; a
\* unit with two children under the root
PairPassages ==
    {[gold |-> {Edge("1.2", "0.1", "D", TRUE), Edge("1.2", "0.2", "A", FALSE),
                Edge(ROOT_ID, "1.2", "A", FALSE)},
      implicit |-> {}, layer1 |-> {ROOT_ID, "1.2"}],
     [gold |-> {Edge(ROOT_ID, "1.2", "A", FALSE), Edge(ROOT_ID, "0.2", "D", FALSE)},
      implicit |-> {"1.2"}, layer1 |-> {ROOT_ID, "1.2"}],
     [gold |-> {Edge("1.2", "0.2", "A", FALSE), Edge("1.2", "0.3", "A", FALSE),
                Edge(ROOT_ID, "1.2", "D", FALSE)},
      implicit |-> {}, layer1 |-> {ROOT_ID, "1.2", "1.3"}]}

\* the driver leaves the running pair and resumes the suspended one
Switch ==
    /\ \E p \in other :
        /\ gold' = p.gold
        /\ implicit' = p.implicit
        /\ layer1' = p.layer1
        /\ edges_remaining' = p.edges_remaining
        /\ nodes_remaining' = p.nodes_remaining
        /\ stack' = p.stack
        /\ buffer' = p.buffer
        /\ edges' = p.edges
        /\ action' = p.action
        /\ swap_distance' = p.swap_distance
        /\ er_before' = p.er_before
        /\ nr_before' = p.nr_before
        /\ shifted' = p.shifted
        /\ pc' = p.pc
        /\ calls' = p.calls
    /\ other' = {Private}
    /\ UNCHANGED <<compound_swap, node_above, sort>>

InitPair ==
    /\ compound_swap \in BOOLEAN
    /\ node_above \in BOOLEAN
    /\ \E p, q \in PairPassages :
        /\ p.gold # q.gold
        /\ gold = Fresh(p).gold
        /\ implicit = Fresh(p).implicit
        /\ layer1 = Fresh(p).layer1
        /\ edges_remaining = Fresh(p).edges_remaining
        /\ nodes_remaining = Fresh(p).nodes_remaining
        /\ stack = Fresh(p).stack
        /\ buffer = Fresh(p).buffer
        /\ edges = Fresh(p).edges
        /\ action = Fresh(p).action
        /\ swap_distance = Fresh(p).swap_distance
        /\ er_before = Fresh(p).er_before
        /\ nr_before = Fresh(p).nr_before
        /\ shifted = Fresh(p).shifted
        /\ pc = Fresh(p).pc
        /\ calls = Fresh(p).calls
        /\ other = {Fresh(q)}
    /\ sort = NoSort

NextPair == Next \/ Switch

SpecPair == InitPair /\ [][NextPair]_vars

-----------------------------------------------------------------------------
(* from_conll (ucca/convert.py): topological_sort and create_nodes *)

\* dep_nodes of a paragraph of n tokens: position 0 is the root, position i
\* the i-th token; head[i] is the token's head_position
RECURSIVE ReachesRoot(_, _, _)
ReachesRoot(head, i, k) ==
    IF i = 0 THEN TRUE
    ELSE IF k = 0 THEN FALSE
    ELSE ReachesRoot(head, head[i], k - 1)

\* the head functions that make dep_nodes a tree rooted at dep_nodes[0]
Heads(n) ==
    {head \in [1..n -> 0..n] : \A i \in 1..n : ReachesRoot(head, i, n)}

\* dep_node.children: filled in the order of the positions
children(head, d) ==
    SelectSeq([i \in DOMAIN head |-> i], LAMBDA i : head[i] = d)

Max(set) == CHOOSE x \in set : \A y \in set : y <= x

\* dep_nodes_by_level[l].add(d) on a defaultdict(set)
AddToLevel(by_level, l, d) ==
    [k \in DOMAIN by_level \cup {l} |->
        IF k = l
        THEN (IF l \in DOMAIN by_level THEN by_level[l] ELSE {}) \cup {d}
        ELSE by_level[k]]

\* the lists the return statement can build: the levels in decreasing order,
\* the nodes of one level in the iteration order of their set
RECURSIVE Flatten(_, _)
Flatten(by_level, levels) ==
    IF levels = {} THEN {<<>>}
    ELSE {first \o rest :
            first \in Orderings(by_level[Max(levels)]),
            rest \in Flatten(by_level, levels \ {Max(levels)})}

\* the locals at the start of topological_sort(dep_nodes); level holds the
\* nodes whose level is not None, has_node those whose node is not None
SortStart(head) ==
    [spc |-> "sort", head |-> head, remaining |-> <<0>>,
     level |-> <<>>, by_level |-> <<>>, output |-> <<>>,
     i |-> 0, has_node |-> {}, created |-> <<>>, steps |-> 0]

OracleIdle ==
    /\ gold = {}
    /\ implicit = {}
    /\ layer1 = {ROOT_ID}
    /\ compound_swap = FALSE
    /\ node_above = FALSE
    /\ edges_remaining = {}
    /\ nodes_remaining = {}
    /\ stack = <<>>
    /\ buffer = <<>>
    /\ edges = <<>>
    /\ action = Act(None, None, 0, None)
    /\ swap_distance = 0
    /\ er_before = {}
    /\ nr_before = {}
    /\ shifted = {}
    /\ pc = "idle"
    /\ calls = 0
    /\ other = {}

oracle_vars ==
    <<gold, implicit, layer1, compound_swap, node_above, edges_remaining,
      nodes_remaining, stack, buffer, edges, action, swap_distance,
      er_before, nr_before, shifted, pc, calls, other>>

\* "if dep_node.level": None and 0 are both false
Truthy(d) == d \in DOMAIN sort.level /\ sort.level[d] # 0

\* 1 + max(child.level for child in dep_node.children)
InnerLevel(cs) == 1 + Max({sort.level[cs[k]] : k \in DOMAIN cs})

\* one iteration of the while loop of topological_sort
SortStep ==
    /\ sort.spc = "sort"
    /\ sort.remaining # <<>>
    /\ LET dep_node == sort.remaining[Len(sort.remaining)]
           rest == DropLast(sort.remaining, 1)
           cs == children(sort.head, dep_node)
           remaining_children == SelectSeq(cs, LAMBDA c : c \notin DOMAIN sort.level)
           popped == [sort EXCEPT !.steps = @ + 1, !.remaining = rest]
       IN  sort' =
            IF Truthy(dep_node) THEN popped
            ELSE IF cs = <<>>
            THEN [popped EXCEPT
                    !.level = [d \in DOMAIN sort.level \cup {dep_node} |->
                                IF d = dep_node THEN 0 ELSE sort.level[d]],
                    !.by_level = AddToLevel(sort.by_level, 0, dep_node)]
            ELSE IF remaining_children # <<>>
            THEN [popped EXCEPT
                    !.remaining = (rest \o <<dep_node>>) \o remaining_children]
            ELSE [popped EXCEPT
                    !.level = [d \in DOMAIN sort.level \cup {dep_node} |->
                                IF d = dep_node THEN InnerLevel(cs)
                                ELSE sort.level[d]],
                    !.by_level = AddToLevel(sort.by_level, InnerLevel(cs), dep_node)]
    /\ UNCHANGED oracle_vars

\* the return statement of topological_sort, and the start of the loop of
\* create_nodes over its result
SortReturn ==
    /\ sort.spc = "sort"
    /\ sort.remaining = <<>>
    /\ \E out \in Flatten(sort.by_level, DOMAIN sort.by_level) :
        sort' = [sort EXCEPT !.output = out, !.i = 1, !.spc = "create"]
    /\ UNCHANGED oracle_vars

\* one iteration of the loop of create_nodes: the root and the nodes headed
\* by the root are passed over, every other node gets its node under
\* dep_node.head.node, which is None if the head has got no node
CreateNode ==
    /\ sort.spc = "create"
    /\ sort.i <= Len(sort.output)
    /\ LET dep_node == sort.output[sort.i]
           next == [sort EXCEPT !.i = @ + 1,
                        !.spc = IF sort.i = Len(sort.output) THEN "done" ELSE "create"]
       IN  sort' =
            IF dep_node = 0 \/ sort.head[dep_node] = 0
            THEN next
            ELSE [next EXCEPT
                    !.has_node = @ \cup {dep_node},
                    !.created = Append(@, [dep_node |-> dep_node,
                                   head_has_node |-> sort.head[dep_node] \in sort.has_node])]
    /\ UNCHANGED oracle_vars

InitSort ==
    /\ OracleIdle
    /\ \E n \in 1..MaxTokens : \E head \in Heads(n) : sort = SortStart(head)

NextSort == SortStep \/ SortReturn \/ CreateNode

SpecSort == InitSort /\ [][NextSort]_vars

-----------------------------------------------------------------------------
(* Properties *)

\* a get_action call has returned and its action is not applied yet: stack
\* and buffer are those the call saw
Returned == pc = "apply"

Discharging ==
    {"NODE", "IMPLICIT", "LEFT-EDGE", "RIGHT-EDGE", "LEFT-REMOTE", "RIGHT-REMOTE"}

\* the edges the last call removed from edges_remaining
Discharged == er_before \ edges_remaining

\* C1: once the oracle has returned FINISH, the graph built by its actions
\* has exactly the gold edges (parent, child, tag and remote attribute), each
\* built once.
C1_ReplayRebuildsGold ==
    pc = "finished" =>
        /\ Range(edges) = gold
        /\ Len(edges) = Cardinality(gold)

\* C2: get_action returns FINISH exactly when edges_remaining was empty when
\* it was called, whatever the stack and the buffer hold.
C2_FinishIffNoEdges ==
    pc \in {"apply", "failed", "finished"} =>
        (action.type = "FINISH" <=> er_before = {})

C2_Witness ==
    /\ Returned
    /\ action.type = "FINISH"
    /\ gold = {}
    /\ stack # <<>>
    /\ buffer # <<>>

\* C3: a call that returns NODE, IMPLICIT or a binary-edge action removes
\* exactly one edge from edges_remaining; a call that returns SHIFT, REDUCE,
\* SWAP or FINISH leaves edges_remaining as it was.
C3_DischargeExactlyOne ==
    Returned =>
        IF action.type \in Discharging
        THEN /\ edges_remaining \subseteq er_before
             /\ Cardinality(Discharged) = 1
        ELSE /\ action.type \in {"SHIFT", "REDUCE", "SWAP", "FINISH"}
             /\ edges_remaining = er_before

C3_Witness ==
    /\ Returned
    /\ action.type \in {"RIGHT-EDGE", "RIGHT-REMOTE"}
    /\ Cardinality(er_before \cap Incoming(gold, s0) \cap Outgoing(gold, s1)) = 2
    /\ Cardinality(Discharged) = 1

\* C4: when get_action returns REDUCE the stack is not empty and no edge of
\* edges_remaining has the top of the stack as its parent or as its child.
C4_ReduceOnlyWhenDischarged ==
    (Returned /\ action.type = "REDUCE") =>
        /\ stack # <<>>
        /\ \A e \in edges_remaining : e.parent # s0 /\ e.child # s0

C4_Witness ==
    /\ Returned
    /\ action.type = "REDUCE"
    /\ edges_remaining # {}
    /\ \E e \in gold : e.child = s0 /\ e.remote

\* C5: a remote gold edge is discharged only by LEFT-REMOTE or RIGHT-REMOTE,
\* never by NODE, IMPLICIT, LEFT-EDGE or RIGHT-EDGE.
C5_RemoteOnlyByRemoteAction ==
    Returned =>
        \A e \in Discharged :
            e.remote => action.type \in {"LEFT-REMOTE", "RIGHT-REMOTE"}

\* the other endpoints of the edges of the top of the stack that remained
\* when the last call began
RelatedAtCall ==
    {e.child : e \in {x \in er_before : x.parent = s0}}
        \cup {e.parent : e \in {x \in er_before : x.child = s0}}

\* the node IDs of stack[:-k]
Below(k) == {stack[i] : i \in 1..(Len(stack) - k)}

\* C6: with compound swap disabled every SWAP is a single-element swap: the
\* loop stops at distance 1 however deep the stack is, and the action
\* carries no distance.
C6_SingleSwapWhenNotCompound ==
    (Returned /\ action.type = "SWAP" /\ ~compound_swap) =>
        /\ swap_distance = 1
        /\ action.distance = 0
        /\ SwapCount = 1

C6_Witness ==
    /\ Returned
    /\ action.type = "SWAP"
    /\ ~compound_swap
    /\ Len(stack) >= 4
    /\ RelatedAtCall \subseteq Below(3)

\* C7: with compound swap enabled SWAP(d) has d >= 1, related lies in
\* stack[:-k-2] for every k in 0..d-1, and d is maximal: related does not lie
\* in stack[:-d-2], or the stack has only d+1 elements.
C7_CompoundSwapDistanceMaximal ==
    (Returned /\ action.type = "SWAP" /\ compound_swap) =>
        /\ action.distance >= 1
        /\ action.distance = swap_distance
        /\ \A k \in 0..(action.distance - 1) : RelatedAtCall \subseteq Below(k + 2)
        /\ \/ ~(RelatedAtCall \subseteq Below(action.distance + 2))
           \/ Len(stack) = action.distance + 1

C7_Witness ==
    /\ Returned
    /\ action.type = "SWAP"
    /\ compound_swap
    /\ action.distance = 2
    /\ Len(stack) >= 4
    /\ RelatedAtCall # {}

\* C8: get_action is deterministic: in a given state of the oracle and of
\* the parser it can end in one way only (one action, one discharged edge).
C8_Deterministic ==
    pc = "oracle" => Cardinality(GetActionOutcomes) <= 1

Occurrences(seq, x) == Cardinality({i \in 1..Len(seq) : seq[i] = x})

\* C9 as stated: a terminal is in the buffer exactly once until it is
\* shifted, and is never in the buffer again afterwards.
C9_NeverBackInBuffer ==
    \A t \in Terminals :
        IF t \in shifted
        THEN Occurrences(buffer, t) = 0
        ELSE Occurrences(buffer, t) = 1

\* C9, amended: a terminal is in the buffer exactly once until it is shifted;
\* afterwards it is at most once in stack and buffer together, and it goes
\* back to the buffer only when a SWAP is applied.
C9_BackInBufferOnlyBySwap ==
    /\ [](\A t \in Terminals :
            IF t \in shifted
            THEN Occurrences(buffer, t) + Occurrences(stack, t) <= 1
            ELSE Occurrences(buffer, t) = 1 /\ Occurrences(stack, t) = 0)
    /\ [][\A t \in shifted :
            (Occurrences(buffer, t) = 0 /\ Occurrences(buffer', t) > 0)
                => (pc = "apply" /\ action.type = "SWAP")]_vars

C9_Witness ==
    \E t \in shifted : Occurrences(buffer, t) = 1 /\ pc = "oracle"

\* the rules of get_action, read off the state in which the last call began
ReduceApplies ==
    \A e \in er_before : e.parent # s0 /\ e.child # s0

BinaryApplies ==
    /\ Len(stack) > 1
    /\ \E e \in er_before : \/ e.parent = s1 /\ e.child = s0
                            \/ e.parent = s0 /\ e.child = s1

SwapApplies == Len(stack) > 1 /\ RelatedAtCall \subseteq Below(2)

UnaryApplies ==
    \E e \in er_before :
        \/ e.child = s0 /\ e.parent \in nr_before /\ ~e.remote
        \/ e.parent = s0 /\ e.child \in implicit

\* C10: when edges remain, the buffer is empty, and the stack is empty or no
\* REDUCE, binary-edge, SWAP or unary rule applies, get_action raises "No
\* action is possible" and leaves edges_remaining and nodes_remaining as
\* they were.
C10_NoActionPossible ==
    (/\ pc \in {"apply", "failed"}
     /\ er_before # {}
     /\ buffer = <<>>
     /\ \/ stack = <<>>
        \/ ~(ReduceApplies \/ BinaryApplies \/ SwapApplies \/ UnaryApplies))
    => /\ pc = "failed"
       /\ action.type = "NoActionPossible"
       /\ edges_remaining = er_before
       /\ nodes_remaining = nr_before

C10_Witness ==
    /\ pc = "failed"
    /\ action.type = "NoActionPossible"
    /\ Len(stack) > 1
    /\ edges # <<>>

\* C11 as stated: no call adds an element to edges_remaining or to
\* nodes_remaining, and when FINISH is returned both sets are empty.
C11_ShrinkToEmpty ==
    /\ pc # "oracle" =>
        /\ edges_remaining \subseteq er_before
        /\ nodes_remaining \subseteq nr_before
    /\ (Returned /\ action.type = "FINISH") =>
        /\ edges_remaining = {}
        /\ nodes_remaining = {}

\* C11, amended: no call adds an element to either set (so both stay within
\* their values at construction), and when FINISH is returned
\* edges_remaining is empty and nodes_remaining holds only units that have
\* no gold edge at all.
C11_ShrinkAndOnlyIsolatedLeft ==
    /\ edges_remaining \subseteq gold
    /\ nodes_remaining \subseteq layer1 \ {ROOT_ID}
    /\ pc # "oracle" =>
        /\ edges_remaining \subseteq er_before
        /\ nodes_remaining \subseteq nr_before
    /\ (Returned /\ action.type = "FINISH") =>
        /\ edges_remaining = {}
        /\ \A n \in nodes_remaining :
             \A e \in gold : e.parent # n /\ e.child # n

C11_Witness ==
    /\ Returned
    /\ action.type = "FINISH"
    /\ nodes_remaining # {}
    /\ layer1 \ nodes_remaining # {ROOT_ID}

BinaryTypes == {"LEFT-EDGE", "RIGHT-EDGE", "LEFT-REMOTE", "RIGHT-REMOTE"}

\* C12: with two Oracle/State pairs over different passages interleaved in
\* any order, no step of the running pair changes anything of the suspended
\* one or the configuration, a resumed pair is exactly as it was left, and
\* every get_action call returns what the oracle alone returns in the
\* state of its own pair.
C12_PairsIndependent ==
    [][/\ compound_swap' = compound_swap
       /\ \/ other' = other
          \/ other' = {Private} /\ other = {Private'}
       /\ (pc = "oracle" /\ other' = other) =>
            Outcome(action', edges_remaining', nodes_remaining', swap_distance')
                \in GetActionOutcomes]_vars

C12_Witness ==
    /\ Returned
    /\ Discharged # {}
    /\ nodes_remaining # nr_before
    /\ \E p \in other :
        /\ p.pc = "apply"
        /\ p.action.type \in BinaryTypes
        /\ p.nodes_remaining # p.layer1 \ {ROOT_ID}
        /\ p.edges_remaining # {}

\* C13: a get_action call changes nothing but edges_remaining and
\* nodes_remaining: the stack, the buffer, the graph under construction, the
\* configuration and the gold nodes' incoming and outgoing edges stay as
\* they are.
C13_GetActionFrame ==
    [][(pc = "oracle" /\ pc' # "oracle") =>
        /\ stack' = stack
        /\ buffer' = buffer
        /\ edges' = edges
        /\ compound_swap' = compound_swap
        /\ implicit' = implicit
        /\ layer1' = layer1
        /\ \A n \in Terminals \cup Layer1 :
            /\ Incoming(gold', n) = Incoming(gold, n)
            /\ Outgoing(gold', n) = Outgoing(gold, n)]_vars

C13_Witness ==
    /\ Returned
    /\ Discharged # {}
    /\ nodes_remaining # nr_before
    /\ Len(stack) > 1
    /\ buffer # <<>>

\* the buffer front is the other endpoint of a remaining edge of the top of
\* the stack
FrontRelated == buffer # <<>> /\ buffer[1] \in RelatedAtCall

C20_SwapOnlyWhenBuried ==
    (Returned /\ action.type = "SWAP") =>
        /\ Len(stack) >= 2
        /\ ~FrontRelated
        /\ ~BinaryApplies
        /\ RelatedAtCall # {}
        /\ RelatedAtCall \subseteq Below(2)

C20_Witness ==
    /\ Returned
    /\ action.type = "SWAP"
    /\ buffer # <<>>
    /\ Cardinality(RelatedAtCall) > 1

\* the projective passage [A, B, C] with B and C under the unit P and P
\* under the root, all edges primary; A = 0.1, B = 0.2, C = 0.3, P = 1.2;
\* A carries no edge or hangs directly under the root
ProjectiveLinks ==
    {<<"1.2", "0.2", FALSE>>, <<"1.2", "0.3", FALSE>>, <<ROOT_ID, "1.2", FALSE>>}

ProjectivePassage ==
    /\ {<<e.parent, e.child, e.remote>> : e \in gold}
        \in {ProjectiveLinks, ProjectiveLinks \cup {<<ROOT_ID, "0.1", FALSE>>}}
    /\ Cardinality(gold) = Cardinality({<<e.parent, e.child>> : e \in gold})
    /\ implicit = {}
    /\ layer1 = {ROOT_ID, "1.2"}

\* the parent-child pairs of the edges discharged by the last call
DischargedLinks == {<<e.parent, e.child>> : e \in Discharged}

Links(es, k) ==
    /\ Len(stack) > k
    /\ \E e \in es : \/ e.parent = stack[Len(stack) - k] /\ e.child = s0
                     \/ e.parent = s0 /\ e.child = stack[Len(stack) - k]

C22_DefaultShift ==
    (pc \in {"apply", "failed"} /\ er_before # {} /\ buffer # <<>>
        /\ \/ stack = <<>>
           \/ /\ ~ReduceApplies
              /\ ~FrontRelated
              /\ ~BinaryApplies
              /\ ~SwapApplies
              /\ ~UnaryApplies)
    => /\ Returned
       /\ action.type = "SHIFT"
       /\ edges_remaining = er_before
       /\ nodes_remaining = nr_before

C22_Witness ==
    /\ Returned
    /\ action.type = "SHIFT"
    /\ Len(stack) > 1
    /\ ~FrontRelated
    /\ er_before # {}

C22_WitnessEmptyStack ==
    /\ Returned
    /\ action.type = "SHIFT"
    /\ stack = <<>>

\* C23: every returned action satisfies its precondition in the state it
\* was computed for: SHIFT needs a non-empty buffer, REDUCE, NODE and
\* IMPLICIT a non-empty stack, the binary-edge actions and SWAP at least two
\* stack elements.
C23_ActionPreconditions ==
    Returned =>
        /\ action.type = "SHIFT" => buffer # <<>>
        /\ action.type \in {"REDUCE", "NODE", "IMPLICIT"} => stack # <<>>
        /\ action.type \in BinaryTypes \cup {"SWAP"} => Len(stack) >= 2

C23_Witness ==
    /\ Returned
    /\ action.type = "REDUCE"
    /\ Len(stack) = 1
    /\ buffer # <<>>
    /\ edges_remaining # {}

\* the state right after Oracle(passage) and before any get_action call
FreshOracle == pc = "oracle" /\ action.type = None

\* C24: a freshly constructed Oracle has nodes_remaining equal to the IDs of
\* the layer-1 nodes except the root ID "1.1", and edges_remaining equal to
\* the set of the outgoing edges of all gold nodes, edges into terminals and
\* remote edges included.
C24_FreshOracleSets ==
    FreshOracle =>
        /\ nodes_remaining = layer1 \ {"1.1"}
        /\ edges_remaining = UNION {Outgoing(gold, n) : n \in Layer1 \cup Terminals}
        /\ \A e \in gold : (e.remote \/ e.child \in Terminals)
                            => e \in edges_remaining

C24_Witness ==
    /\ FreshOracle
    /\ \E e \in edges_remaining : e.remote /\ e.child \in Terminals
    /\ \E e \in edges_remaining : ~e.remote /\ e.child \in Units
    /\ \E u \in nodes_remaining : Incoming(gold, u) \cup Outgoing(gold, u) = {}
    /\ "1.1" \in layer1

\* C28: whenever SWAP is returned the stack has at least three elements, and
\* in compound mode the distance d satisfies 1 <= d <= len(stack) - 2; the
\* elements to move back to the buffer exist below the top of the stack.
C28_SwapDistanceInStack ==
    (Returned /\ action.type = "SWAP") =>
        /\ Len(stack) >= 3
        /\ compound_swap =>
            /\ action.distance = swap_distance
            /\ 1 <= action.distance
            /\ action.distance <= Len(stack) - 2
        /\ SwapCount <= Len(stack) - 2

C28_Witness ==
    /\ Returned
    /\ action.type = "SWAP"
    /\ compound_swap
    /\ action.distance = Len(stack) - 2
    /\ action.distance > 1

\* C26: the only failure of get_action is the "No action is possible"
\* error: every remove finds its element, so no call ends in a KeyError,
\* also when an implicit child has more than one incoming gold edge.
C26_OnlyNoActionPossibleFails ==
    pc = "failed" => action.type = "NoActionPossible"

\* an incoming edge of s0 qualified for NODE when the last call began
NodeApplies ==
    \E e \in er_before : e.child = s0 /\ e.parent \in nr_before /\ ~e.remote

\* C27: no node ID in nodes_remaining belongs to an element of the stack or
\* the buffer, so that the SWAP condition and the NODE condition never both
\* hold for the same top of the stack.
C27_RemainingNodesNotInState ==
    /\ nodes_remaining \cap (Range(stack) \cup Range(buffer)) = {}
    /\ (pc \in {"apply", "failed"} /\ stack # <<>>) =>
        /\ nr_before \cap (Range(stack) \cup Range(buffer)) = {}
        /\ ~(SwapApplies /\ NodeApplies)

C27_Witness ==
    /\ Returned
    /\ action.type = "SWAP"
    /\ nr_before # {}
    /\ Range(stack) \cap Units # {}
    /\ \E e \in er_before : e.parent \in nr_before

\* C29: the "No action is possible" error carries the stack and the buffer
\* of the state and the oracle's nodes_remaining and edges_remaining as they
\* are at the moment of the failure, each element once.
C29_ErrorCarriesRemaining ==
    (pc = "failed" /\ action.type = "NoActionPossible") =>
        /\ action.stack = stack
        /\ action.buffer = buffer
        /\ Range(action.nodes_left) = nodes_remaining
        /\ Len(action.nodes_left) = Cardinality(nodes_remaining)
        /\ Range(action.edges_left) = edges_remaining
        /\ Len(action.edges_left) = Cardinality(edges_remaining)
        /\ nodes_remaining = nr_before
        /\ edges_remaining = er_before

C29_Witness ==
    /\ pc = "failed"
    /\ action.type = "NoActionPossible"
    /\ Len(action.nodes_left) > 0
    /\ Len(action.edges_left) > 1
    /\ edges_remaining # gold
    /\ stack # <<>>

\* a bound on the number of get_action calls of one parse, in the size of
\* the passage
CallBound == 3 * Cardinality(gold) + 2 * Len(TerminalIDs) + 1

\* C25: the driver loop ends after finitely many steps in FINISH or in an
\* error: the number of get_action calls of a parse stays within a bound
\* given by the size of the passage, and as long as the parse has neither
\* finished nor failed a next step exists.
C25_DriverLoopEnds ==
    /\ calls <= CallBound
    /\ pc \in {"oracle", "apply", "finished", "failed"}
    /\ pc = "oracle" => GetActionOutcomes # {}
    /\ pc = "apply" =>
        ENABLED (Shift \/ Node \/ Implicit \/ LeftEdge \/ RightEdge
                    \/ Reduce \/ SwapStack \/ Finish)

C25_Witness ==
    /\ pc = "finished"
    /\ calls >= 3 * Cardinality(gold)
    /\ Cardinality(gold) = MaxEdges
    /\ \E i \in 1..Len(buffer) : buffer[i] \in shifted

\* the position of the dependency node d in the list topological_sort
\* returned
Position(d) == CHOOSE k \in DOMAIN sort.output : sort.output[k] = d

Sorted == sort.spc \in {"create", "done"}

\* topological_sort ends within two iterations per node and returns every
\* node of the tree once, by decreasing level, each node before its
\* children; a leaf has level 0, an inner node 1 + the largest level of its
\* children.
TopologicalSortOrder ==
    sort.spc # "idle" =>
        /\ sort.steps <= 2 * (Len(sort.head) + 1)
        /\ Sorted =>
            /\ Len(sort.output) = Len(sort.head) + 1
            /\ Range(sort.output) = 0..Len(sort.head)
            /\ DOMAIN sort.level = 0..Len(sort.head)
            /\ \A d \in 0..Len(sort.head) :
                LET cs == children(sort.head, d)
                IN  sort.level[d] =
                        IF cs = <<>> THEN 0
                        ELSE 1 + Max({sort.level[cs[k]] : k \in DOMAIN cs})
            /\ \A k, l \in DOMAIN sort.output :
                k < l => sort.level[sort.output[k]] >= sort.level[sort.output[l]]
            /\ \A d \in 1..Len(sort.head) : Position(sort.head[d]) < Position(d)

\* C30: topological_sort terminates and returns every node of the tree once,
\* each before its children and by decreasing level, so that whenever
\* create_nodes creates the node of a dependent, the node of its head has
\* been created before.
C30_HeadNodeBeforeDependents ==
    /\ TopologicalSortOrder
    /\ sort.spc # "idle" =>
        \A k \in DOMAIN sort.created : sort.created[k].head_has_node

=============================================================================
